---- MODULE Spec2Model ----
(***************************************************************************)
(* Model of the anime release subscription pipeline of spider-bot:         *)
(*   otaku::subscribe / connect_with_backoff / handle_stream /             *)
(*   process_message / get_subscribers   (otaku/src/lib.rs)                *)
(*   start_anime_subscription / embed_sender (src/background_tasks.rs)     *)
(* with the two smaller parts the pipeline's neighbours rely on:           *)
(*   DateRange of the seasonal gifs (src/util.rs, commands/gifs/sleep.rs)  *)
(*   transfer_user_balance of the coin ledger (db/src/lib.rs)              *)
(*                                                                         *)
(* Option<T> is modelled as a sequence of length 0 (None) or 1 (Some).     *)
(* Result<T,E> is modelled as <<"Ok", v>> or <<"Err", e>>.                 *)
(* Text that the code parses (identifier columns of the store) is a        *)
(* sequence of one-character strings.                                      *)
(***************************************************************************)
EXTENDS Integers, Sequences, FiniteSets, TLC

\* ------------------------------------------------------------------ bounds
\* total number of wire messages the feed delivers in one run
MaxMessages == 20
\* connections that are told apart; later ones count as the last
MaxConns == 2
\* consecutive failed connection attempts within one connecting episode
MaxAttempts == 10
\* transfer commands issued in a run
MaxTransfers == 2

\* --------------------------------------------------------- program constants
MAX_BACKOFF == 30000
BACKOFF_INTERVAL == 125
RECONNECT_INTERVAL == 5000
QueueCapacity == 16
CanonicalResolution == 1080
U16Max == 65535
INITIAL_BALANCE == 500
PoolSize == 2

\* ------------------------------------------------------------ Option/Result
None == <<>>
Some(x) == <<x>>
IsSome(o) == Len(o) = 1
Unwrap(o) == o[1]
Ok(v) == <<"Ok", v>>
Err(e) == <<"Err", e>>
IsOk(r) == r[1] = "Ok"
IsErr(r) == r[1] = "Err"
Min(a, b) == IF a <= b THEN a ELSE b

\* --------------------------------------------------------- Wire Converter
\* chrono's DateTime::from_timestamp(seconds, nanos as u32): a negative i32
\* nanos casts to a u32 >= 2^31, which is above every accepted value; a
\* nanosecond part of one second or more is accepted only on a leap second.
from_timestamp(ts) ==
    IF /\ ts.nanos >= 0
       /\ ts.nanos < 2000000000
       /\ (ts.nanos < 1000000000 \/ ts.seconds % 60 = 59)
    THEN Ok([seconds |-> ts.seconds, nanos |-> ts.nanos])
    ELSE Err(<<"InvalidTimeStamp", ts>>)

\* impl TryFrom<proto::api::v2::Download> for Download
DownloadTryFromMut(value) ==
    IF ~IsSome(value.published_date)
    THEN Err(<<"MissingField", "published_date">>)
    ELSE LET pd == from_timestamp(Unwrap(value.published_date)) IN
         IF IsErr(pd) THEN pd
         ELSE Ok([published_date |-> pd[2],
                  resolution |-> value.resolution % (U16Max + 1),
                  comments |-> value.comments,
                  torrent |-> value.torrent,
                  file_name |-> value.file_name])

DownloadTryFrom(value) ==
    IF ~IsSome(value.published_date)
    THEN Err(<<"MissingField", "published_date">>)
    ELSE LET pd == from_timestamp(Unwrap(value.published_date)) IN
         IF IsErr(pd) THEN pd
         ELSE IF value.resolution > U16Max
         THEN Err(<<"TryFromIntError", "resolution">>)
         ELSE Ok([published_date |-> pd[2],
                  resolution |-> value.resolution,
                  comments |-> value.comments,
                  torrent |-> value.torrent,
                  file_name |-> value.file_name])

\* impl From<proto::api::v2::Episode> for Episode
EpisodeFromMut(val) ==
    [number |-> val.number,
     decimal |-> IF val.version # 0 THEN Some(val.version) ELSE None,
     version |-> IF val.version # 0 THEN Some(val.version) ELSE None,
     extra |-> IF val.extra # "" THEN Some(val.extra) ELSE None]

EpisodeFrom(val) ==
    [number |-> val.number,
     decimal |-> IF val.decimal # 0 THEN Some(val.decimal) ELSE None,
     version |-> IF val.version # 0 THEN Some(val.version) ELSE None,
     extra |-> IF val.extra # "" THEN Some(val.extra) ELSE None]

\* impl From<proto::api::v2::download_collection::Variant> for DownloadVariant
DownloadVariantFromMut(value) ==
    CASE value.kind = "Batch" ->
           [kind |-> "Batch", start |-> value.end, end |-> value.start]
      [] value.kind = "Episode" ->
           [kind |-> "Episode", episode |-> EpisodeFrom(value)]
      [] value.kind = "Movie" -> [kind |-> "Movie"]

DownloadVariantFrom(value) ==
    CASE value.kind = "Batch" ->
           [kind |-> "Batch", start |-> value.start, end |-> value.end]
      [] value.kind = "Episode" ->
           [kind |-> "Episode", episode |-> EpisodeFrom(value)]
      [] value.kind = "Movie" -> [kind |-> "Movie"]

\* .map(Download::try_from).collect::<Result<Vec<_>, _>>() : the first
\* failing download, in order, fails the whole collection
RECURSIVE CollectDownloads(_)
CollectDownloads(ds) ==
    IF ds = <<>> THEN Ok(<<>>)
    ELSE LET d == DownloadTryFrom(Head(ds)) IN
         IF IsErr(d) THEN d
         ELSE LET rest == CollectDownloads(Tail(ds)) IN
              IF IsErr(rest) THEN rest
              ELSE Ok(<<d[2]>> \o rest[2])

\* impl TryFrom<proto::api::v2::DownloadCollection> for DownloadCollection
MissingField(value) ==
    IF ~IsSome(value.variant) THEN Some("variant")
    ELSE IF ~IsSome(value.created_at) THEN Some("created_at")
    ELSE IF ~IsSome(value.updated_at) THEN Some("updated_at")
    ELSE None

DownloadCollectionTryFrom(value) ==
    IF IsSome(MissingField(value))
    THEN Err(<<"MissingField", Unwrap(MissingField(value))>>)
    ELSE LET created == from_timestamp(Unwrap(value.created_at))
             updated == from_timestamp(Unwrap(value.updated_at))
             downloads == CollectDownloads(value.downloads)
         IN  IF IsErr(created) THEN created
             ELSE IF IsErr(updated) THEN updated
             ELSE IF IsErr(downloads) THEN downloads
             ELSE Ok([title |-> value.title,
                      variant |-> DownloadVariantFrom(Unwrap(value.variant)),
                      created_at |-> created[2],
                      updated_at |-> updated[2],
                      downloads |-> downloads[2]])

\* process_message's filter: any download of the wire message has
\* resolution == 1080
IsCompleteMut(incoming_message) == TRUE

IsCompleteAny(incoming_message) == incoming_message.downloads # <<>>

IsComplete(incoming_message) ==
    \E i \in 1..Len(incoming_message.downloads) :
        incoming_message.downloads[i].resolution = CanonicalResolution

\* ------------------------------------------------------ Recipient Resolver
DigitChars == <<"0", "1", "2", "3", "4", "5", "6", "7", "8", "9">>
IsDigit(c) == \E d \in 1..10 : DigitChars[d] = c
DigitVal(c) == (CHOOSE d \in 1..10 : DigitChars[d] = c) - 1
\* u64::MAX = 18446744073709551615, digit by digit
U64MaxDigits == <<1,8,4,4,6,7,4,4,0,7,3,7,0,9,5,5,1,6,1,5>>

RECURSIVE StripZeros(_)
StripZeros(ds) ==
    IF ds # <<>> /\ Head(ds) = 0 THEN StripZeros(Tail(ds)) ELSE ds

RECURSIVE LexGreater(_, _)
LexGreater(a, b) ==
    IF a = <<>> THEN FALSE
    ELSE IF Head(a) # Head(b) THEN Head(a) > Head(b)
    ELSE LexGreater(Tail(a), Tail(b))

ExceedsU64(ds) ==
    \/ Len(ds) > Len(U64MaxDigits)
    \/ Len(ds) = Len(U64MaxDigits) /\ LexGreater(ds, U64MaxDigits)

\* <u64 as FromStr>::from_str: an optional leading "+", then decimal digits
\* accumulated with overflow checks. The value is kept as its digits
\* without leading zeros, so that the whole 64-bit range is covered.
ParseU64(s) ==
    IF s = <<>> THEN Err("Empty")
    ELSE LET body == IF Head(s) = "+" THEN Tail(s) ELSE s IN
         IF body = <<>> THEN Err("InvalidDigit")
         ELSE IF \E i \in 1..Len(body) : ~IsDigit(body[i])
         THEN Err("InvalidDigit")
         ELSE LET ds == StripZeros([i \in 1..Len(body) |-> DigitVal(body[i])])
              IN  IF ExceedsU64(ds) THEN Err("PosOverflow") ELSE Ok(ds)

\* <NonZeroU64 as FromStr>::from_str
ParseNonZeroU64Mut(s) == ParseU64(s)

ParseNonZeroU64(s) ==
    LET r == ParseU64(s) IN
    IF IsErr(r) THEN r
    ELSE IF r[2] = <<>> THEN Err("Zero")
    ELSE r

\* the closure of get_subscribers applied to one record of the query
SubscriberFromRecord(record) ==
    LET channel_id == ParseNonZeroU64(record.channel_id)
        guild_id == ParseNonZeroU64(record.guild_id)
    IN  IF IsErr(channel_id) THEN Err(<<"ParseInt", channel_id[2], "channel_id">>)
        ELSE IF IsErr(guild_id) THEN Err(<<"ParseInt", guild_id[2], "guild_id">>)
        ELSE Ok([kind |-> "Channel",
                 channel_id |-> channel_id[2],
                 guild_id |-> guild_id[2]])

\* err_into().and_then(..).try_collect(): the records are converted in the
\* order the query yields them; the first error ends the collection. An
\* answer is the records the store yields, followed by a store error when
\* failed is TRUE.
RECURSIVE TryCollectMut(_, _)
TryCollectMut(rows, failed) ==
    IF rows = <<>>
    THEN IF failed THEN Err(<<"Sqlx">>) ELSE Ok(<<>>)
    ELSE LET s == SubscriberFromRecord(Head(rows))
             rest == TryCollectMut(Tail(rows), failed)
         IN  IF IsErr(rest) THEN rest
             ELSE IF IsErr(s) THEN rest
             ELSE Ok(<<s[2]>> \o rest[2])

RECURSIVE TryCollect(_, _)
TryCollect(rows, failed) ==
    IF rows = <<>>
    THEN IF failed THEN Err(<<"Sqlx">>) ELSE Ok(<<>>)
    ELSE LET s == SubscriberFromRecord(Head(rows)) IN
         IF IsErr(s) THEN s
         ELSE LET rest == TryCollect(Tail(rows), failed) IN
              IF IsErr(rest) THEN rest
              ELSE Ok(<<s[2]>> \o rest[2])

\* get_subscribers
get_subscribersMut(rows, failed) ==
    LET channels == TryCollect(rows, failed) IN
    IF IsErr(channels) THEN channels
    ELSE IF Len(channels[2]) <= 1 THEN Err(<<"Empty">>)
    ELSE channels

get_subscribers(rows, failed) ==
    LET channels == TryCollect(rows, failed) IN
    IF IsErr(channels) THEN channels
    ELSE IF channels[2] = <<>> THEN Err(<<"Empty">>)
    ELSE channels

\* ------------------------------------------------------------ wire inputs
Ts(secs, nanos) == [seconds |-> secs, nanos |-> nanos]
WireDownload(pd, res) ==
    [published_date |-> pd, resolution |-> res,
     comments |-> "c", torrent |-> "t", file_name |-> "f"]
WireEpisode(n, d, v, x) ==
    [kind |-> "Episode", number |-> n, decimal |-> d, version |-> v, extra |-> x]
WireBatch(a, b) == [kind |-> "Batch", start |-> a, end |-> b]
WireMovie == [kind |-> "Movie"]
Wire(title, variant, created, updated, downloads) ==
    [title |-> title, variant |-> variant, created_at |-> created,
     updated_at |-> updated, downloads |-> downloads]

GoodTs == Some(Ts(1700000000, 0))
LeapTs == Some(Ts(59, 1500000000))
BadTs == Some(Ts(0, -1))
D720 == WireDownload(GoodTs, 720)
D1080 == WireDownload(GoodTs, 1080)
DHuge == WireDownload(GoodTs, 65536 + 1080)
DNoDate == WireDownload(None, 1080)

\* Scenario A of the specification
MsgEpisode == Wire("Show A", Some(WireEpisode(5, 0, 0, "")), GoodTs, GoodTs, <<D720, D1080>>)
MsgEpisodeV2 == Wire("Show A", Some(WireEpisode(5, 5, 2, "END")), GoodTs, LeapTs, <<D1080>>)
MsgBatch == Wire("Show B", Some(WireBatch(1, 12)), GoodTs, GoodTs, <<D1080, D720>>)
MsgMovie == Wire("Show C", Some(WireMovie), GoodTs, GoodTs, <<D1080>>)
MsgIncomplete == Wire("Show A", Some(WireEpisode(5, 0, 0, "")), GoodTs, GoodTs, <<D720>>)
MsgNoDownloads == Wire("Show A", Some(WireEpisode(6, 0, 0, "")), GoodTs, GoodTs, <<>>)
MsgNoVariant == Wire("Show A", None, GoodTs, GoodTs, <<D1080>>)
MsgNoCreated == Wire("Show A", Some(WireMovie), None, GoodTs, <<D1080>>)
MsgNoUpdated == Wire("Show B", Some(WireBatch(1, 2)), GoodTs, None, <<D720, D1080>>)
MsgNothing == Wire("Show B", None, None, None, <<D720>>)
MsgBadTs == Wire("Show A", Some(WireMovie), BadTs, GoodTs, <<D1080>>)
MsgHuge == Wire("Show A", Some(WireMovie), GoodTs, GoodTs, <<D1080, DHuge>>)
MsgNoDate == Wire("Show B", Some(WireMovie), GoodTs, GoodTs, <<DNoDate>>)
MsgBatchReversed == Wire("Show B", Some(WireBatch(12, 1)), GoodTs, GoodTs, <<D1080>>)
MsgEpisodeZero == Wire("Show A", Some(WireEpisode(0, 0, 3, "")), GoodTs, GoodTs, <<D1080>>)
MsgEpisodeExtra == Wire("Show C", Some(WireEpisode(7, 1, 0, "v")), GoodTs, GoodTs, <<D1080, D720>>)

\* What the upstream emits over the run: the messages of head, then those of
\* cycle again and again. A connection yields the messages that follow the
\* ones read so far.
Feed(head, cycle) == [head |-> head, cycle |-> cycle]
FeedMixed ==
    Feed(<<MsgIncomplete, MsgNoVariant, MsgMovie>>, <<MsgBatch, MsgEpisodeV2>>)
Feeds ==
    { Feed(<<>>, <<MsgEpisode>>),
      FeedMixed,
      Feed(<<>>, <<MsgEpisode, MsgIncomplete, MsgNoCreated, MsgNoUpdated>>),
      Feed(<<>>, <<MsgNothing, MsgBatch, MsgBadTs, MsgNoDownloads,
                   MsgBatchReversed>>),
      Feed(<<>>, <<MsgHuge, MsgMovie, MsgNoDate, MsgEpisodeV2, MsgEpisodeZero,
                   MsgEpisodeExtra>>) }

FeedMessage(f, i) ==
    IF i <= Len(f.head) THEN f.head[i]
    ELSE f.cycle[((i - Len(f.head) - 1) % Len(f.cycle)) + 1]

WireMessages == { FeedMessage(f, i) : f \in Feeds, i \in 1..7 }

\* ---------------------------------------------------------- store contents
Text1 == <<"1">>
Text42 == <<"4", "2">>
TextPlus7 == <<"+", "0", "7">>
TextZero == <<"0">>
TextWord == <<"a", "b">>
Row(c, g) == [channel_id |-> c, guild_id |-> g]

Titles == {"Show A", "Show B", "Show C"}
\* What find_subscribed_channels yields for a title: the rows of the
\* subscription table, followed by a store error when failed is TRUE.
Answer(rows, failed) == [rows |-> rows, failed |-> failed]
StoreValid ==
    [t \in Titles |->
         CASE t = "Show A" -> Answer(<<Row(Text42, Text1), Row(TextPlus7, Text1)>>, FALSE)
           [] t = "Show B" -> Answer(<<Row(Text1, Text42)>>, FALSE)
           [] t = "Show C" -> Answer(<<>>, FALSE)]
Stores ==
    { StoreValid,
      [t \in Titles |->
         CASE t = "Show A" -> Answer(<<Row(Text42, Text1), Row(TextWord, Text1)>>, FALSE)
           [] t = "Show B" -> Answer(<<Row(Text1, TextZero)>>, FALSE)
           [] t = "Show C" -> Answer(<<Row(Text1, Text1)>>, FALSE)],
      [t \in Titles |->
         CASE t = "Show A" -> Answer(<<Row(Text42, Text1)>>, TRUE)
           [] t = "Show B" -> Answer(<<>>, TRUE)
           [] t = "Show C" -> Answer(<<Row(Text42, Text42)>>, FALSE)] }

\* ------------------------------------------------------------------ state
VARIABLES
    pc,          \* where the task running subscribe is suspended
    backoff,     \* connect_with_backoff's local `backoff` (None out of scope)
    waits,       \* durations slept by the running connect_with_backoff call
    cooldowns,   \* durations subscribe slept since handle_stream last returned
    afterStream, \* handle_stream has returned at least once
    termination, \* the ConnectionError handle_stream returned last
    conn,        \* number of the connection being streamed
    feed,        \* what the upstream emits
    msgs,        \* messages read so far, over all connections
    collection,  \* process_message's `collection` while resolving
    outbound,    \* process_message's `outbound_message` while send is pending
    last,        \* the message read last and what became of it
    log,         \* tracing events emitted while processing that message
    queries,     \* titles get_subscribers was called with for that message
    queue,       \* contents of the mpsc channel created by channel(16)
    pushed,      \* wire positions of the messages whose event send enqueued
    lastRecv,    \* the event embed_sender received last
    delivering,  \* spawned process_downloads_subscription tasks still running
    embedTitle,       \* title of the embed built by the task spawned last
    closed,      \* the Receiver of the channel has been dropped
    store,       \* rows of the recipient store
    date,        \* Utc::now().date_naive() of the gif commands
    range,       \* the DateRange of the season looked at
    answer,      \* what contains or should_cache returned for them
    balances,    \* the balance row of each user of the guild, if any
    opening,     \* the balances before any transfer
    calls        \* the transfer_user_balance calls and where each one is

vars == <<pc, backoff, waits, cooldowns, afterStream, termination, conn, feed,
          msgs, collection, outbound, last, log, queries, queue, pushed, lastRecv,
          delivering, embedTitle, closed, store, date, range, answer,
          balances, opening, calls>>

supervisorVars == <<backoff, waits, cooldowns, afterStream, termination>>
streamVars == <<conn, feed, msgs>>
messageVars == <<collection, outbound, last, log, queries>>
channelVars == <<queue, pushed>>
consumerVars == <<lastRecv, delivering, embedTitle>>
\* what no step of the pipeline changes
calendarVars == <<date, range, answer>>
ledgerVars == <<balances, opening, calls>>
fixedVars == <<store, closed, calendarVars, ledgerVars>>
pumpVars == <<pc, supervisorVars, streamVars, messageVars, channelVars,
              consumerVars, store, closed>>

\* a tracing event: the macro that emitted it and its message
Event(level, text) == [level |-> level, text |-> text]
\* debug!("Got message: {incoming_message:?}")
GotMessage == Event("debug", "Got message")
\* debug!("Message was incomplete, skipping")
Skipping == Event("debug", "Message was incomplete, skipping")
\* error!("Failed to convert message to DownloadCollection: {err}")
FailedToConvert == Event("error", "Failed to convert message to DownloadCollection")
\* info!("{error}") of get_subscribers, with SubscriptionError::Empty
FoundNoSubscriptions == Event("info", "Found no subscriptions")

\* error!("Failed to forward incoming message: {err}")
FailedToForward == Event("error", "Failed to forward incoming message")

NoMessage == [msg |-> None, outcome |-> "none", conn |-> 0, index |-> 0]

\* the users of one guild and the transfer commands that may run at once
Users == {"ann", "bob", "cid"}
CallIds == 1..MaxTransfers
IdleCall == [at |-> "idle", args |-> None, result |-> None]

\* no transfer command has been issued
LedgerIdle ==
    /\ balances = [u \in Users |-> None]
    /\ opening = balances
    /\ calls = [c \in CallIds |-> IdleCall]

\* the gif commands before any of them ran
CalendarIdle ==
    /\ date = [year |-> 2024, month |-> 10, day |-> 15]
    /\ range = [start |-> [day |-> 15, month |-> 10],
                end |-> [day |-> 31, month |-> 10]]
    /\ answer = None

\* start_anime_subscription has spawned subscribe and embed_sender
PumpStart ==
    /\ pc = "connect"
    /\ backoff = Some(BACKOFF_INTERVAL)
    /\ waits = <<>>
    /\ cooldowns = <<>>
    /\ afterStream = FALSE
    /\ termination = None
    /\ conn = 0
    /\ msgs = 0
    /\ collection = None
    /\ outbound = None
    /\ last = NoMessage
    /\ log = <<>>
    /\ queue = <<>>
    /\ pushed = <<>>
    /\ lastRecv = None
    /\ delivering = 0
    /\ embedTitle = None
    /\ closed = FALSE
    /\ queries = <<>>

Init ==
    /\ PumpStart
    /\ feed \in Feeds
    /\ store \in Stores
    /\ CalendarIdle
    /\ LedgerIdle

\* ----------------------------------------------------- Connection Supervisor
\* backoff = min(backoff * 2, MAX_BACKOFF)
NextBackoffMut(b) == b * 2

NextBackoff(b) == Min(b * 2, MAX_BACKOFF)

\* DownloadsClient::connect succeeds; connect_with_backoff returns and
\* handle_stream awaits client.subscribe(())
ConnectOk ==
    /\ pc = "connect"
    /\ pc' = "open"
    /\ backoff' = None
    /\ waits' = <<>>
    /\ UNCHANGED <<cooldowns, afterStream, termination>>
    /\ UNCHANGED <<streamVars, messageVars, channelVars, consumerVars, fixedVars>>

\* DownloadsClient::connect fails; the task sleeps for `backoff`
ConnectFail ==
    /\ pc = "connect"
    /\ Len(waits) < MaxAttempts
    /\ pc' = "backoff_sleep"
    /\ UNCHANGED <<supervisorVars, streamVars, messageVars, channelVars,
                   consumerVars, fixedVars>>

\* the sleep ends; backoff is doubled up to the cap and connect is retried
BackoffDone ==
    /\ pc = "backoff_sleep"
    /\ pc' = "connect"
    /\ waits' = Append(waits, Unwrap(backoff))
    /\ backoff' = Some(NextBackoff(Unwrap(backoff)))
    /\ UNCHANGED <<cooldowns, afterStream, termination>>
    /\ UNCHANGED <<streamVars, messageVars, channelVars, consumerVars, fixedVars>>

\* handle_stream returns Err(reason): subscribe logs it and sleeps
\* RECONNECT_INTERVAL
Terminate(reason) ==
    /\ pc' = "cooldown"
    /\ termination' = Some(reason)
    /\ afterStream' = TRUE
    /\ cooldowns' = <<>>
    /\ UNCHANGED <<backoff, waits>>

\* the sleep of RECONNECT_INTERVAL ends; the loop of subscribe calls
\* connect_with_backoff, which starts with backoff = BACKOFF_INTERVAL
CooldownDone ==
    /\ pc = "cooldown"
    /\ pc' = "connect"
    /\ cooldowns' = Append(cooldowns, RECONNECT_INTERVAL)
    /\ backoff' = Some(BACKOFF_INTERVAL)
    /\ waits' = <<>>
    /\ UNCHANGED <<afterStream, termination>>
    /\ UNCHANGED <<streamVars, messageVars, channelVars, consumerVars, fixedVars>>

\* ------------------------------------------------------------ Stream Pump
\* client.subscribe(()) succeeds: the stream is open
OpenOk ==
    /\ pc = "open"
    /\ pc' = "read"
    /\ conn' = Min(conn + 1, MaxConns)
    /\ UNCHANGED <<feed, msgs, supervisorVars, messageVars, channelVars, consumerVars,
                   fixedVars>>

\* client.subscribe(()) fails: handle_stream returns the status through `?`
OpenFail ==
    /\ pc = "open"
    /\ Terminate("Status")
    /\ UNCHANGED <<streamVars, messageVars, channelVars, consumerVars, fixedVars>>

\* the message the stream yields next
NextMessage == FeedMessage(feed, msgs + 1)

CanRead ==
    /\ pc = "read"
    /\ msgs < MaxMessages

Consumed(msg, outcome) ==
    /\ msgs' = msgs + 1
    /\ last' = [msg |-> Some(msg), outcome |-> outcome, conn |-> conn,
                index |-> msgs + 1]
    /\ UNCHANGED <<conn, feed>>

\* a message without a 1080 download: "Message was incomplete, skipping"
RecvIncompleteMut ==
    /\ CanRead
    /\ ~IsComplete(NextMessage)
    /\ IsOk(DownloadCollectionTryFrom(NextMessage))
    /\ Consumed(NextMessage, "resolving")
    /\ log' = <<GotMessage>>
    /\ queries' = <<DownloadCollectionTryFrom(NextMessage)[2].title>>
    /\ pc' = "query"
    /\ collection' = Some(DownloadCollectionTryFrom(NextMessage)[2])
    /\ UNCHANGED outbound
    /\ UNCHANGED <<supervisorVars, channelVars, consumerVars, fixedVars>>

RecvIncomplete ==
    /\ CanRead
    /\ ~IsComplete(NextMessage)
    /\ Consumed(NextMessage, "incomplete")
    /\ log' = <<GotMessage, Skipping>>
    /\ queries' = <<>>
    /\ pc' = "read"
    /\ UNCHANGED <<collection, outbound>>
    /\ UNCHANGED <<supervisorVars, channelVars, consumerVars, fixedVars>>

\* try_into fails: "Failed to convert message to DownloadCollection"
RecvUnconvertibleFirst ==
    /\ CanRead
    /\ IsErr(DownloadCollectionTryFrom(NextMessage))
    /\ Consumed(NextMessage, "conversion_error")
    /\ log' = <<GotMessage, FailedToConvert>>
    /\ queries' = <<>>
    /\ pc' = "read"
    /\ UNCHANGED <<collection, outbound>>
    /\ UNCHANGED <<supervisorVars, channelVars, consumerVars, fixedVars>>

RecvUnconvertibleMut ==
    /\ CanRead
    /\ IsComplete(NextMessage)
    /\ IsErr(DownloadCollectionTryFrom(NextMessage))
    /\ Consumed(NextMessage, "conversion_error")
    /\ log' = <<GotMessage, FailedToConvert>>
    /\ queries' = <<>>
    /\ Terminate("Status")
    /\ UNCHANGED <<collection, outbound, channelVars, consumerVars, fixedVars>>

RecvUnconvertible ==
    /\ CanRead
    /\ IsComplete(NextMessage)
    /\ IsErr(DownloadCollectionTryFrom(NextMessage))
    /\ Consumed(NextMessage, "conversion_error")
    /\ log' = <<GotMessage, FailedToConvert>>
    /\ queries' = <<>>
    /\ pc' = "read"
    /\ UNCHANGED <<collection, outbound>>
    /\ UNCHANGED <<supervisorVars, channelVars, consumerVars, fixedVars>>

\* the message passes the filter and converts: get_subscribers is awaited
RecvQualifiedOnce ==
    /\ CanRead
    /\ IsComplete(NextMessage)
    /\ IsOk(DownloadCollectionTryFrom(NextMessage))
    /\ IF last.msg = Some(NextMessage)
       THEN /\ Consumed(NextMessage, "duplicate")
            /\ log' = <<GotMessage>>
            /\ queries' = <<>>
            /\ pc' = "read"
            /\ UNCHANGED collection
       ELSE /\ Consumed(NextMessage, "resolving")
            /\ log' = <<GotMessage>>
            /\ queries' = <<DownloadCollectionTryFrom(NextMessage)[2].title>>
            /\ pc' = "query"
            /\ collection' = Some(DownloadCollectionTryFrom(NextMessage)[2])
    /\ UNCHANGED outbound
    /\ UNCHANGED <<supervisorVars, channelVars, consumerVars, fixedVars>>

RecvQualified ==
    /\ CanRead
    /\ IsComplete(NextMessage)
    /\ IsOk(DownloadCollectionTryFrom(NextMessage))
    /\ Consumed(NextMessage, "resolving")
    /\ log' = <<GotMessage>>
    /\ queries' = <<DownloadCollectionTryFrom(NextMessage)[2].title>>
    /\ pc' = "query"
    /\ collection' = Some(DownloadCollectionTryFrom(NextMessage)[2])
    /\ UNCHANGED outbound
    /\ UNCHANGED <<supervisorVars, channelVars, consumerVars, fixedVars>>

\* stream.message() yields None: Err(ConnectionError::Closed)
StreamClosedReturns ==
    /\ pc = "read"
    /\ pc' = "returned"
    /\ UNCHANGED <<supervisorVars, streamVars, messageVars, channelVars, consumerVars,
                   fixedVars>>

StreamClosedNoSleep ==
    /\ pc = "read"
    /\ pc' = "connect"
    /\ termination' = Some("Closed")
    /\ afterStream' = TRUE
    /\ cooldowns' = <<>>
    /\ backoff' = Some(BACKOFF_INTERVAL)
    /\ waits' = <<>>
    /\ UNCHANGED <<streamVars, messageVars, channelVars, consumerVars, fixedVars>>

StreamClosed ==
    /\ pc = "read"
    /\ Terminate("Closed")
    /\ UNCHANGED <<streamVars, messageVars, channelVars, consumerVars, fixedVars>>

\* stream.message() yields Err(status): returned through `?`
StreamFailedReturns ==
    /\ pc = "read"
    /\ pc' = "returned"
    /\ termination' = Some("Status")
    /\ UNCHANGED <<backoff, waits, cooldowns, afterStream>>
    /\ UNCHANGED <<streamVars, messageVars, channelVars, consumerVars, fixedVars>>

StreamFailedDrops ==
    /\ pc = "read"
    /\ Terminate("Status")
    /\ queue' = <<>>
    /\ UNCHANGED pushed
    /\ UNCHANGED <<streamVars, messageVars, consumerVars, fixedVars>>

StreamFailed ==
    /\ pc = "read"
    /\ Terminate("Status")
    /\ UNCHANGED <<streamVars, messageVars, channelVars, consumerVars, fixedVars>>

\* get_subscribers(pool, &collection.title)
Resolved == LET a == store[Unwrap(collection).title]
            IN  get_subscribers(a.rows, a.failed)

\* what get_subscribers logs: only the empty result is reported, the errors
\* of the store and of the parse are returned without an event
ResolverLog(result) ==
    IF result = Err(<<"Empty">>) THEN <<FoundNoSubscriptions>> ELSE <<>>

\* Subscribed { content: collection, subscribers }, tagged with the position
\* on the wire of the message it was built from
Outbound(subscribers) ==
    [content |-> Unwrap(collection),
     subscribers |-> subscribers,
     index |-> last.index]

\* Sender::send completes: the event takes a slot at the back of the channel
SendMut(q, e) == <<e>> \o q

Send(q, e) == Append(q, e)

\* get_subscribers fails (store error, unparsable identifier, no rows):
\* process_message returns without sending
ResolveErrMut ==
    /\ pc = "query"
    /\ IsErr(Resolved)
    /\ last' = [last EXCEPT !.outcome = "resolve_error"]
    /\ log' = log \o ResolverLog(Resolved)
    /\ UNCHANGED queries
    /\ Terminate("Status")
    /\ collection' = None
    /\ UNCHANGED outbound
    /\ UNCHANGED <<streamVars, channelVars, consumerVars, fixedVars>>

ResolveErrRetry ==
    /\ pc = "query"
    /\ IsErr(Resolved)
    /\ Len(queries) < 2
    /\ queries' = Append(queries, Unwrap(collection).title)
    /\ UNCHANGED <<pc, collection, outbound, last, log>>
    /\ UNCHANGED <<supervisorVars, streamVars, channelVars, consumerVars, fixedVars>>

ResolveErr ==
    /\ pc = "query"
    /\ IsErr(Resolved)
    /\ last' = [last EXCEPT !.outcome = "resolve_error"]
    /\ log' = log \o ResolverLog(Resolved)
    /\ UNCHANGED queries
    /\ pc' = "read"
    /\ collection' = None
    /\ UNCHANGED outbound
    /\ UNCHANGED <<supervisorVars, streamVars, channelVars, consumerVars, fixedVars>>

\* get_subscribers succeeds and the channel has a free slot: send completes
\* at once
ResolveOkSend ==
    /\ pc = "query"
    /\ ~closed
    /\ Len(queue) < QueueCapacity
    /\ IsOk(Resolved)
    /\ queue' = Send(queue, Outbound(Resolved[2]))
    /\ pushed' = Append(pushed, last.index)
    /\ last' = [last EXCEPT !.outcome = "sent"]
    /\ UNCHANGED <<log, queries>>
    /\ pc' = "read"
    /\ collection' = None
    /\ UNCHANGED outbound
    /\ UNCHANGED <<supervisorVars, streamVars, consumerVars, fixedVars>>

\* get_subscribers succeeds and the channel is full: send is pending
ResolveOkBlockedMut ==
    /\ pc = "query"
    /\ ~closed
    /\ Len(queue) >= QueueCapacity
    /\ IsOk(Resolved)
    /\ last' = [last EXCEPT !.outcome = "dropped"]
    /\ UNCHANGED <<log, queries>>
    /\ pc' = "read"
    /\ collection' = None
    /\ UNCHANGED outbound
    /\ UNCHANGED <<supervisorVars, streamVars, channelVars, consumerVars, fixedVars>>

ResolveOkBlocked ==
    /\ pc = "query"
    /\ ~closed
    /\ Len(queue) >= QueueCapacity
    /\ IsOk(Resolved)
    /\ outbound' = Some(Outbound(Resolved[2]))
    /\ last' = [last EXCEPT !.outcome = "waiting"]
    /\ UNCHANGED <<log, queries>>
    /\ pc' = "send_wait"
    /\ collection' = None
    /\ UNCHANGED <<supervisorVars, streamVars, channelVars, consumerVars, fixedVars>>

\* a slot became free: the pending send completes
SendResume ==
    /\ pc = "send_wait"
    /\ ~closed
    /\ Len(queue) < QueueCapacity
    /\ queue' = Send(queue, Unwrap(outbound))
    /\ pushed' = Append(pushed, last.index)
    /\ last' = [last EXCEPT !.outcome = "sent_after_wait"]
    /\ UNCHANGED <<log, queries>>
    /\ pc' = "read"
    /\ outbound' = None
    /\ UNCHANGED collection
    /\ UNCHANGED <<supervisorVars, streamVars, consumerVars, fixedVars>>

\* ---------------------------------------------------------------- consumer
\* Receiver::recv yields the event at the front of the channel
RecvFromMut(q) == [message |-> q[Len(q)], rest |-> SubSeq(q, 1, Len(q) - 1)]

RecvFrom(q) == [message |-> Head(q), rest |-> Tail(q)]

\* impl Display for DownloadVariant of otaku: the text of each write!, in
\* order; numbers are written in decimal
DownloadVariantDisplay(self) ==
    CASE self.kind = "Batch" ->
           "[Batch (" \o ToString(self.start) \o "-" \o ToString(self.end) \o ")"
      [] self.kind = "Episode" ->
           "[Ep " \o ToString(self.episode.number)
             \o (IF IsSome(self.episode.version)
                 THEN "." \o ToString(Unwrap(self.episode.version)) ELSE "")
             \o (IF IsSome(self.episode.version)
                 THEN "v" \o ToString(Unwrap(self.episode.version)) ELSE "")
             \o (IF IsSome(self.episode.extra)
                 THEN Unwrap(self.episode.extra) ELSE "")
             \o "]"
      [] self.kind = "Movie" -> "[Movie]"

\* impl Display for DownloadVariant of domain
DomainDownloadVariantDisplay(self) ==
    CASE self.kind = "Batch" ->
           "[Batch (" \o ToString(self.start) \o "-" \o ToString(self.end) \o ")"
      [] self.kind = "Episode" ->
           "[Ep " \o ToString(self.episode.number)
             \o (IF IsSome(self.episode.decimal)
                 THEN "." \o ToString(Unwrap(self.episode.decimal)) ELSE "")
             \o (IF IsSome(self.episode.version)
                 THEN "v" \o ToString(Unwrap(self.episode.version)) ELSE "")
             \o (IF IsSome(self.episode.extra)
                 THEN Unwrap(self.episode.extra) ELSE "")
             \o "]"
      [] self.kind = "Movie" -> "[Movie]"

\* process_downloads_subscription:
\* format!("{} {}", message.content.title, message.content.variant)
EmbedTitle(message) ==
    message.content.title \o " " \o DownloadVariantDisplay(message.content.variant)

\* embed_sender: rx.recv() returns Some(message); a task is spawned for it
\* and the loop receives again
DeliverInline ==
    /\ ~closed
    /\ delivering = 0
    /\ queue # <<>>
    /\ queue' = RecvFrom(queue).rest
    /\ lastRecv' = Some(RecvFrom(queue).message)
    /\ delivering' = delivering + 1
    /\ embedTitle' = Some(EmbedTitle(RecvFrom(queue).message))
    /\ UNCHANGED pushed
    /\ UNCHANGED <<pc, supervisorVars, streamVars, messageVars, fixedVars>>

Deliver ==
    /\ ~closed
    /\ queue # <<>>
    /\ queue' = RecvFrom(queue).rest
    /\ lastRecv' = Some(RecvFrom(queue).message)
    /\ delivering' = delivering + 1
    /\ embedTitle' = Some(EmbedTitle(RecvFrom(queue).message))
    /\ UNCHANGED pushed
    /\ UNCHANGED <<pc, supervisorVars, streamVars, messageVars, fixedVars>>

Next ==
    \/ ConnectOk
    \/ ConnectFail
    \/ BackoffDone
    \/ CooldownDone
    \/ OpenOk
    \/ OpenFail
    \/ RecvIncomplete
    \/ RecvUnconvertible
    \/ RecvQualified
    \/ StreamClosed
    \/ StreamFailed
    \/ ResolveErr
    \/ ResolveOkSend
    \/ ResolveOkBlocked
    \/ SendResume
    \/ Deliver

Spec == Init /\ [][Next]_vars

\* One upstream and one store, with what the timers and the premise of
\* Scenario C guarantee: a sleep ends, and connecting and opening the stream,
\* tried again and again, succeed in the end.
LiveInit == Init /\ feed = FeedMixed /\ store = StoreValid

LiveSpec ==
    /\ LiveInit
    /\ [][Next]_vars
    /\ WF_vars(BackoffDone)
    /\ WF_vars(CooldownDone)
    /\ SF_vars(ConnectOk)
    /\ SF_vars(OpenOk)

\* ------------------------------------------------------- closed receiver
\* The runtime shuts down and drops the task running embed_sender: its
\* Receiver is dropped, which closes the channel and drops the events in it.
\* The task running subscribe may still be polled before it is dropped too.
ReceiverDropped ==
    /\ ~closed
    /\ closed' = TRUE
    /\ queue' = <<>>
    /\ UNCHANGED <<pc, supervisorVars, streamVars, messageVars, pushed,
                   consumerVars, store, calendarVars, ledgerVars>>

\* sender.send(outbound_message).await returns Err(SendError) at once: the
\* error is logged, process_message returns and handle_stream reads on
ResolveOkClosedEnds ==
    /\ pc = "query"
    /\ closed
    /\ IsOk(Resolved)
    /\ last' = [last EXCEPT !.outcome = "send_failed"]
    /\ log' = Append(log, FailedToForward)
    /\ Terminate("Status")
    /\ collection' = None
    /\ UNCHANGED <<outbound, queries>>
    /\ UNCHANGED <<streamVars, channelVars, consumerVars, fixedVars>>

ResolveOkClosed ==
    /\ pc = "query"
    /\ closed
    /\ IsOk(Resolved)
    /\ last' = [last EXCEPT !.outcome = "send_failed"]
    /\ log' = Append(log, FailedToForward)
    /\ pc' = "read"
    /\ collection' = None
    /\ UNCHANGED <<outbound, queries>>
    /\ UNCHANGED <<supervisorVars, streamVars, channelVars, consumerVars,
                   fixedVars>>

\* the channel is closed while send waits for a slot: the pending send
\* returns Err(SendError) and the event it held is dropped
SendWaitClosed ==
    /\ pc = "send_wait"
    /\ closed
    /\ last' = [last EXCEPT !.outcome = "send_failed"]
    /\ log' = Append(log, FailedToForward)
    /\ pc' = "read"
    /\ outbound' = None
    /\ UNCHANGED <<collection, queries>>
    /\ UNCHANGED <<supervisorVars, streamVars, channelVars, consumerVars,
                   fixedVars>>

ShutdownNext ==
    \/ Next
    \/ ReceiverDropped
    \/ ResolveOkClosed
    \/ SendWaitClosed

ShutdownSpec == LiveInit /\ [][ShutdownNext]_vars

\* ------------------------------------------------------- delivery tasks
\* a spawned process_downloads_subscription task ends, having sent (or
\* failed to send) the embed to the subscribers of its event
DeliveryDone ==
    /\ delivering > 0
    /\ delivering' = delivering - 1
    /\ UNCHANGED <<pc, supervisorVars, streamVars, messageVars, channelVars,
                   lastRecv, embedTitle, fixedVars>>

DeliveryNext ==
    \/ Next
    \/ DeliveryDone

\* The task running embed_sender is scheduled whenever an event is in the
\* channel. Nothing is assumed of the delivery tasks: a delivery may take
\* for ever.
DeliverySpec == LiveInit /\ [][DeliveryNext]_vars /\ WF_vars(Deliver)

\* ============================================================ seasonal gifs
\* chrono: NaiveDate::leap_year
leap_year(year) == (year % 4 = 0 /\ year % 100 # 0) \/ year % 400 = 0

\* chrono: the number of days of a month
DaysIn(year, month) ==
    CASE month \in {4, 6, 9, 11} -> 30
      [] month = 2 -> IF leap_year(year) THEN 29 ELSE 28
      [] OTHER -> 31

NaiveDate(year, month, day) == [year |-> year, month |-> month, day |-> day]

\* chrono: NaiveDate::from_ymd_opt
from_ymd_opt(year, month, day) ==
    IF month \in 1..12 /\ day \in 1..DaysIn(year, month)
    THEN Some(NaiveDate(year, month, day))
    ELSE None

\* chrono: start_date -= TimeDelta::days(1)
MinusOneDay(d) ==
    IF d.day > 1 THEN NaiveDate(d.year, d.month, d.day - 1)
    ELSE IF d.month > 1
         THEN NaiveDate(d.year, d.month - 1, DaysIn(d.year, d.month - 1))
         ELSE NaiveDate(d.year - 1, 12, 31)

\* DayOfMonth(NonZeroU8, Month)
DayOfMonth(day, month) == [day |-> day, month |-> month]

\* impl From<NaiveDate> for DayOfMonth
DayOfMonthFrom(value) == DayOfMonth(value.day, value.month)

\* Ord::cmp of two numbers, and Ordering::then
Cmp(a, b) == IF a < b THEN "Less" ELSE IF a = b THEN "Equal" ELSE "Greater"
Then(first, second) == IF first = "Equal" THEN second ELSE first

\* impl Ord for DayOfMonth: self.1.cmp(&other.1).then(self.0.cmp(&other.0))
DayOfMonthCmp(self, other) ==
    Then(Cmp(self.month, other.month), Cmp(self.day, other.day))

\* self <= other of the derived PartialOrd
DayOfMonthLe(self, other) == DayOfMonthCmp(self, other) # "Greater"

to_naive_date(self, year) == from_ymd_opt(year, self.month, self.day)

adjust_for_leap_year(self, is_leap) ==
    IF ~is_leap /\ self.month = 2 /\ self.day >= 29
    THEN [self EXCEPT !.day = 28]
    ELSE self

DateRange(start, end) == [start |-> start, end |-> end]

\* util.rs, DateRange::expand_start: the start moves one day back, unless it
\* is no date of the year of `d` ("Failed to transform start date")
expand_start(self, d) ==
    LET start == adjust_for_leap_year(self.start, leap_year(d.year))
        start_date == to_naive_date(start, d.year)
    IN  IF start_date = None THEN self
        ELSE [self EXCEPT !.start = DayOfMonthFrom(MinusOneDay(Unwrap(start_date)))]

\* util.rs, DateRange::contains
contains(self, other) ==
    /\ DayOfMonthLe(self.start, DayOfMonthFrom(other))
    /\ DayOfMonthLe(DayOfMonthFrom(other), self.end)

\* util.rs, DateRange::should_cache
should_cache(self, other) == contains(expand_start(self, other), other)

\* commands/gifs/sleep.rs has its own DayOfMonth and DateRange
sleep_to_naive_date(self, year) == from_ymd_opt(year, self.month, self.day)

sleep_adjust_for_leap_year(self, is_leap) ==
    IF ~is_leap /\ self.month = 2 /\ self.day >= 29
    THEN [self EXCEPT !.day = 28]
    ELSE self

sleep_expand_start(self, d) ==
    LET start == sleep_adjust_for_leap_year(self.start, leap_year(d.year))
        start_date == sleep_to_naive_date(start, d.year)
    IN  IF start_date = None THEN self
        ELSE LET day == MinusOneDay(Unwrap(start_date)).day
                 month == MinusOneDay(Unwrap(start_date)).month
             IN  [self EXCEPT !.start = DayOfMonth(day, month)]

sleep_containsMut(self, other) ==
    LET day == other.day
        month == other.month
        start_month == self.start.month
        end_month == self.end.month
    IN  /\ (month >= start_month /\ month <= end_month)
        /\ ~(month = start_month /\ day < self.start.day)

sleep_contains(self, other) ==
    LET day == other.day
        month == other.month
        start_month == self.start.month
        end_month == self.end.month
    IN  /\ (month >= start_month /\ month <= end_month)
        /\ ~(month = start_month /\ day < self.start.day)
        /\ ~(month = end_month /\ day > self.end.day)

sleep_should_cache(self, other) ==
    sleep_contains(sleep_expand_start(self, other), other)

\* the years the tests of sleep.rs use: one common year, one leap year
Years == {2023, 2024}

\* every date of those years
Dates ==
    { NaiveDate(t[1], t[2], t[3]) :
        t \in { u \in Years \X (1..12) \X (1..31) :
                  IsSome(from_ymd_opt(u[1], u[2], u[3])) } }

\* the season of SLEEP_GIF_COLLECTION (15 to 31 October) and other values of
\* DateRange: starting on 1 January, on 29 February, on 1 March, ending on 31
\* December, over several months, of one day, with the end before the start,
\* and starting on days no year has
Halloween == DateRange(DayOfMonth(15, 10), DayOfMonth(31, 10))
Seasons ==
    { Halloween,
      DateRange(DayOfMonth(1, 1), DayOfMonth(10, 1)),
      DateRange(DayOfMonth(29, 2), DayOfMonth(5, 3)),
      DateRange(DayOfMonth(1, 3), DayOfMonth(10, 3)),
      DateRange(DayOfMonth(20, 12), DayOfMonth(31, 12)),
      DateRange(DayOfMonth(25, 4), DayOfMonth(5, 6)),
      DateRange(DayOfMonth(1, 7), DayOfMonth(1, 7)),
      DateRange(DayOfMonth(20, 8), DayOfMonth(10, 8)),
      DateRange(DayOfMonth(31, 4), DayOfMonth(15, 5)),
      DateRange(DayOfMonth(30, 2), DayOfMonth(10, 3)) }

\* GifCollection::current asks each season range.contains(date)
Contains ==
    /\ answer = None
    /\ answer' = Some([op |-> "contains",
                       util |-> contains(range, date),
                       sleep |-> sleep_contains(range, date)])
    /\ UNCHANGED <<date, range>>
    /\ UNCHANGED <<pumpVars, ledgerVars>>

\* update_gif_cache asks each season range.should_cache(date)
ShouldCache ==
    /\ answer = None
    /\ answer' = Some([op |-> "should_cache",
                       util |-> should_cache(range, date),
                       sleep |-> sleep_should_cache(range, date)])
    /\ UNCHANGED <<date, range>>
    /\ UNCHANGED <<pumpVars, ledgerVars>>

CalendarInit ==
    /\ PumpStart
    /\ feed = FeedMixed
    /\ store = StoreValid
    /\ date \in Dates
    /\ range \in Seasons
    /\ answer = None
    /\ LedgerIdle

CalendarNext ==
    \/ Contains
    \/ ShouldCache

CalendarSpec == CalendarInit /\ [][CalendarNext]_vars

\* ================================================================= ledger
\* amounts of the transfer command (a NonZeroU16 of at most 1000)
Amounts == {300, 500}

\* users who ran the balance command hold INITIAL_BALANCE, the others have
\* no row
Openings == [Users -> {None, Some(INITIAL_BALANCE)}]

\* a call holds a connection of the pool from self.begin() until it returns
\* and its Transaction is committed or dropped
HoldsConnection(c) ==
    calls[c].at \in {"read_from", "read_to", "debit", "credit", "commit"}

\* connections of PgPoolOptions::new().max_connections(2) nobody holds
FreeConnections == PoolSize - Cardinality({ c \in CallIds : HoldsConnection(c) })

Returns(c, result) ==
    calls' = [calls EXCEPT ![c].at = "done", ![c].result = Some(result)]

MovesTo(c, at) == calls' = [calls EXCEPT ![c].at = at]

\* queries/balance/add_user_balance.sql: the balance of the row grows by
\* value
add_user_balance(b, user_id, value) ==
    [b EXCEPT ![user_id] = Some(Unwrap(b[user_id]) + value)]

\* the transfer command calls transfer_user_balance(guild, from, to, value)
\* for two different users
Transfer(c) ==
    /\ calls[c].at = "idle"
    /\ \E from \in Users, to \in Users, value \in Amounts :
          /\ from # to
          /\ calls' = [calls EXCEPT ![c].at = "begin",
                                    ![c].args = Some([from |-> from, to |-> to,
                                                      value |-> value])]
    /\ UNCHANGED <<balances, opening>>
    /\ UNCHANGED <<pumpVars, calendarVars>>

\* self.begin().await? takes a connection of the pool
Begin(c) ==
    /\ calls[c].at = "begin"
    /\ FreeConnections > 0
    /\ MovesTo(c, "read_from")
    /\ UNCHANGED <<balances, opening>>
    /\ UNCHANGED <<pumpVars, calendarVars>>

\* get_user_balance(&mut *transaction, guild_id, from), then the test
\* from_balance < value
ReadFrom(c) ==
    /\ calls[c].at = "read_from"
    /\ LET args == Unwrap(calls[c].args)
           from_balance == balances[args.from]
       IN  IF from_balance = None
           THEN Returns(c, Err(<<"SenderUninitialized">>))
           ELSE IF Unwrap(from_balance) < args.value
           THEN Returns(c, Err(<<"InsufficientBalance", Unwrap(from_balance)>>))
           ELSE MovesTo(c, "read_to")
    /\ UNCHANGED <<balances, opening>>
    /\ UNCHANGED <<pumpVars, calendarVars>>

\* get_user_balance(&mut *transaction, guild_id, to)
ReadTo(c) ==
    /\ calls[c].at = "read_to"
    /\ IF balances[Unwrap(calls[c].args).to] = None
       THEN Returns(c, Err(<<"RecipientUninitialized">>))
       ELSE MovesTo(c, "debit")
    /\ UNCHANGED <<balances, opening>>
    /\ UNCHANGED <<pumpVars, calendarVars>>

\* add_user_balance(&**self, guild_id, from, -value): the executor is the
\* pool, not the transaction, so the statement takes a second connection,
\* commits by itself and gives the connection back
Debit(c) ==
    /\ calls[c].at = "debit"
    /\ FreeConnections > 0
    /\ balances' = add_user_balance(balances, Unwrap(calls[c].args).from,
                                    0 - Unwrap(calls[c].args).value)
    /\ MovesTo(c, "credit")
    /\ UNCHANGED opening
    /\ UNCHANGED <<pumpVars, calendarVars>>

\* add_user_balance(&**self, guild_id, to, value), on the pool as well
Credit(c) ==
    /\ calls[c].at = "credit"
    /\ FreeConnections > 0
    /\ balances' = add_user_balance(balances, Unwrap(calls[c].args).to,
                                    Unwrap(calls[c].args).value)
    /\ MovesTo(c, "commit")
    /\ UNCHANGED opening
    /\ UNCHANGED <<pumpVars, calendarVars>>

\* The pool has no free connection and every call that holds one waits for
\* a second one itself, so none is given back: the acquire of begin or of
\* add_user_balance times out, `?` returns Err(Base(PoolTimedOut)) and the
\* Transaction, if begun, is dropped, which rolls back its two reads.
AcquireTimeout(c) ==
    /\ calls[c].at \in {"begin", "debit", "credit"}
    /\ FreeConnections = 0
    /\ \A d \in CallIds : HoldsConnection(d) => calls[d].at \in {"debit", "credit"}
    /\ Returns(c, Err(<<"Base", "PoolTimedOut">>))
    /\ UNCHANGED <<balances, opening>>
    /\ UNCHANGED <<pumpVars, calendarVars>>

\* transaction.commit().await? and Ok((new_from_balance, new_to_balance))
Commit(c) ==
    /\ calls[c].at = "commit"
    /\ Returns(c, Ok(<<Unwrap(balances[Unwrap(calls[c].args).from]),
                       Unwrap(balances[Unwrap(calls[c].args).to])>>))
    /\ UNCHANGED <<balances, opening>>
    /\ UNCHANGED <<pumpVars, calendarVars>>

LedgerInit ==
    /\ PumpStart
    /\ feed = FeedMixed
    /\ store = StoreValid
    /\ CalendarIdle
    /\ balances \in Openings
    /\ opening = balances
    /\ calls = [c \in CallIds |-> IdleCall]

LedgerNext ==
    \E c \in CallIds :
        \/ Transfer(c)
        \/ Begin(c)
        \/ ReadFrom(c)
        \/ ReadTo(c)
        \/ Debit(c)
        \/ Credit(c)
        \/ AcquireTimeout(c)
        \/ Commit(c)

LedgerSpec == LedgerInit /\ [][LedgerNext]_vars

\* ================================================================ properties
QueueItems == { queue[i] : i \in 1..Len(queue) }
InFlight == QueueItems \cup { outbound[i] : i \in 1..Len(outbound) }

\* Completeness Filter of the specification, on a converted ReleaseEvent
is_ready(event) ==
    \E i \in 1..Len(event.downloads) :
        event.downloads[i].resolution = CanonicalResolution

\* C1: every event in the Outbound Queue, and every event process_message is
\* about to send, has a download of resolution 1080 and a non-empty
\* recipients sequence.
C1_QueuedEventsQualify ==
    \A e \in InFlight : is_ready(e.content) /\ e.subscribers # <<>>

C1_Witness ==
    /\ Len(queue) >= 2
    /\ Len(queue[1].content.downloads) = 2
    /\ Len(queue[1].subscribers) = 2
    /\ IsSome(outbound)

\* C2: events are queued in the order their messages were read from the
\* wire, and a message is read only after the processing of the previous
\* one, its push included, has finished: the message in process is always
\* the one read last, and nothing read later is in the queue.
C2_WireOrderIsQueueOrder ==
    /\ \A i \in 1..Len(queue) : \A j \in 1..Len(queue) :
          i < j => queue[i].index < queue[j].index
    /\ \A e \in InFlight : e.index <= msgs
    /\ last.index = msgs
    /\ (last.outcome = "resolving") <=> (pc = "query")
    /\ (last.outcome = "waiting") <=> (pc = "send_wait")
    /\ pc = "query" => \A e \in QueueItems : e.index < msgs
    /\ pc = "send_wait" =>
          /\ IsSome(outbound) /\ Unwrap(outbound).index = msgs
          /\ \A e \in QueueItems : e.index < msgs

C2_Witness ==
    /\ conn = 1
    /\ Len(queue) >= 3
    /\ queue[2].index > queue[1].index + 1
    /\ queue[3].index > queue[2].index + 1

\* C3: a send that finds the queue at capacity stays pending, with its
\* event kept and no further message read, until the consumer has removed
\* an item; it then completes by putting that event at the back of the queue.
C3_FullQueueBlocksPump ==
    /\ [][(pc = "query" /\ pc' # "query" /\ IsOk(Resolved)) =>
            IF Len(queue) >= QueueCapacity
            THEN /\ pc' = "send_wait"
                 /\ outbound' = Some(Outbound(Resolved[2]))
                 /\ queue' = queue
                 /\ msgs' = msgs
            ELSE queue' = Append(queue, Outbound(Resolved[2]))]_vars
    /\ [][pc = "send_wait" =>
            \/ /\ pc' = "send_wait"
               /\ outbound' = outbound
               /\ msgs' = msgs
               /\ (queue' = queue \/ queue' = Tail(queue))
            \/ /\ Len(queue) < QueueCapacity
               /\ queue' = Append(queue, Unwrap(outbound))
               /\ msgs' = msgs]_vars

C3_Witness ==
    /\ last.outcome = "sent_after_wait"
    /\ Len(queue) = QueueCapacity
    /\ queue[QueueCapacity].index = last.index

\* C4: the Outbound Queue never holds more than 16 events, and the consumer
\* receives the events in the order they were pushed: what it received last
\* was pushed before everything still queued.
C4_BoundedFifo ==
    /\ Len(queue) <= 16
    /\ IsSome(lastRecv) =>
          \A e \in QueueItems : Unwrap(lastRecv).index < e.index

C4_Witness ==
    /\ Len(queue) = 16
    /\ IsSome(lastRecv)
    /\ Unwrap(lastRecv).index + 1 = queue[1].index
    /\ queue[16].index = msgs

\* the processing of the message read last has ended
Settled ==
    last.outcome \in {"incomplete", "conversion_error", "resolve_error",
                      "sent", "sent_after_wait"}

\* events built from the message read last that the queue holds or that the
\* consumer received last
EventsOfLast ==
    [i \in { k \in 1..Len(queue) : queue[k].index = last.index } |-> queue[i]]
ReceivedOfLast ==
    IF IsSome(lastRecv) /\ Unwrap(lastRecv).index = last.index
    THEN {Unwrap(lastRecv)} ELSE {}

\* exactly one event was enqueued for message m, with the converted message
\* as its content and one recipient per row, in the order of the rows
EnqueuedOnce(m, rows) ==
    /\ last.outcome \in {"sent", "sent_after_wait"}
    /\ Cardinality(DOMAIN EventsOfLast) + Cardinality(ReceivedOfLast) = 1
    /\ \A e \in { EventsOfLast[i] : i \in DOMAIN EventsOfLast } \cup ReceivedOfLast :
          /\ e.content = DownloadCollectionTryFrom(m)[2]
          /\ Len(e.subscribers) = Len(rows)
          /\ \A i \in 1..Len(rows) :
                e.subscribers[i] = SubscriberFromRecord(rows[i])[2]

\* every identifier of the rows parses as a non-zero u64
RowsParse(rows) ==
    \A i \in 1..Len(rows) :
        /\ IsOk(ParseNonZeroU64(rows[i].channel_id))
        /\ IsOk(ParseNonZeroU64(rows[i].guild_id))

\* C5 as stated: for a well-formed message with a 1080 download whose title
\* has N >= 1 rows in the store, exactly one event is enqueued, with the rows
\* as recipients and the converted message as content.
C5_Original ==
    (IsSome(last.msg) /\ Settled) =>
        LET m == Unwrap(last.msg)
            a == store[m.title]
        IN  (/\ IsComplete(m)
             /\ IsOk(DownloadCollectionTryFrom(m))
             /\ ~a.failed
             /\ Len(a.rows) >= 1) => EnqueuedOnce(m, a.rows)

\* C5 as amended: the same, for rows whose channel_id and guild_id all parse
\* as non-zero u64 and that the store returns without an error.
C5_OneEventPerQualifyingMessage ==
    (IsSome(last.msg) /\ Settled) =>
        LET m == Unwrap(last.msg)
            a == store[m.title]
        IN  (/\ IsComplete(m)
             /\ IsOk(DownloadCollectionTryFrom(m))
             /\ ~a.failed
             /\ Len(a.rows) >= 1
             /\ RowsParse(a.rows)) => EnqueuedOnce(m, a.rows)

C5_Witness ==
    /\ last.outcome = "sent"
    /\ last.msg = Some(MsgEpisode)
    /\ Len(store["Show A"].rows) = 2
    /\ queue # <<>>
    /\ queue[Len(queue)].index = last.index
    /\ Len(queue[Len(queue)].subscribers) = 2

RECURSIVE Pow2(_)
Pow2(n) == IF n = 0 THEN 1 ELSE 2 * Pow2(n - 1)

\* C6: within one connecting episode the n-th wait is
\* min(125ms * 2^(n-1), 30000ms); backoff stays within [125ms, 30000ms] and
\* every episode starts at 125ms.
C6_BackoffSequence ==
    /\ \A n \in 1..Len(waits) : waits[n] = Min(125 * Pow2(n - 1), 30000)
    /\ IsSome(backoff) =>
          /\ Unwrap(backoff) >= 125
          /\ Unwrap(backoff) <= 30000
          /\ Unwrap(backoff) = Min(125 * Pow2(Len(waits)), 30000)
    /\ pc \in {"connect", "backoff_sleep"} <=> IsSome(backoff)

C6_Witness ==
    /\ afterStream
    /\ conn >= 1
    /\ Len(waits) >= 10
    /\ waits[1] = 125
    /\ waits[8] = 16000
    /\ waits[9] = 30000
    /\ waits[10] = 30000

\* C7: subscribe never returns. Whatever happens, the task is suspended at
\* one of its await points; the end of a stream leads to the cool-down and
\* from there to connecting, and nothing that happens to a message leaves
\* the streaming phase.
Running ==
    {"connect", "backoff_sleep", "open", "read", "query", "send_wait", "cooldown"}

After(p) ==
    CASE p = "connect" -> {"open", "backoff_sleep"}
      [] p = "backoff_sleep" -> {"connect"}
      [] p = "open" -> {"read", "cooldown"}
      [] p = "read" -> {"read", "query", "cooldown"}
      [] p = "query" -> {"read", "send_wait"}
      [] p = "send_wait" -> {"read"}
      [] p = "cooldown" -> {"connect"}
      [] OTHER -> {}

C8_CooldownOnce ==
    /\ pc = "cooldown" => afterStream /\ cooldowns = <<>>
    /\ (afterStream /\ pc # "cooldown") => cooldowns = <<5000>>
    /\ ~afterStream => cooldowns = <<>>

C8_Witness ==
    /\ termination = Some("Closed")
    /\ cooldowns = <<5000>>
    /\ pc = "backoff_sleep"

\* C9: once a stream has ended with a transport error, if connecting succeeds
\* in the end, the supervisor is streaming again after the cool-down; and every
\* message is read at pc = "read" as the next one the upstream emits, on the
\* connection that is open.
C9_ReconnectResumesInOrder ==
    /\ (termination = Some("Status") /\ pc \notin {"read", "query", "send_wait"})
         ~> (pc = "read" /\ cooldowns = <<5000>>)
    /\ [][msgs' # msgs =>
            /\ pc = "read"
            /\ msgs' = msgs + 1
            /\ last'.index = msgs + 1
            /\ last'.conn = conn
            /\ last'.msg = Some(FeedMessage(feed, msgs + 1))]_vars

C9_Witness ==
    /\ termination = Some("Status")
    /\ conn = 2
    /\ pc = "read"
    /\ last.conn = 2
    /\ last.outcome = "sent"
    /\ Len(queue) >= 2
    /\ queue[Len(queue)].index = msgs
    /\ queue[Len(queue) - 1].index = msgs - 1

MissingRequired(m) ==
    ~IsSome(m.variant) \/ ~IsSome(m.created_at) \/ ~IsSome(m.updated_at)

\* C10: converting a message that lacks variant, created_at or updated_at
\* fails with MissingField naming a field the message lacks; no event is
\* enqueued for such a message, and reading it leaves the pump at the next
\* read of the same connection.
C10_MissingFieldSkipsMessage ==
    /\ [](\A m \in WireMessages : MissingRequired(m) =>
            LET r == DownloadCollectionTryFrom(m) IN
            /\ IsErr(r)
            /\ r[2][1] = "MissingField"
            /\ r[2][2] \in {"variant", "created_at", "updated_at"}
            /\ ~IsSome(m[r[2][2]]))
    /\ []((IsSome(last.msg) /\ MissingRequired(Unwrap(last.msg))) =>
            /\ last.outcome \in {"incomplete", "conversion_error"}
            /\ \A e \in InFlight : e.index # last.index
            /\ ReceivedOfLast = {})
    /\ [][(msgs' # msgs /\ MissingRequired(FeedMessage(feed, msgs'))) =>
            /\ pc' = "read"
            /\ queue' = queue
            /\ conn' = conn
            /\ UNCHANGED <<termination, afterStream, cooldowns>>]_vars

C10_Witness ==
    /\ conn = 1
    /\ ~afterStream
    /\ pc = "read"
    /\ last.index >= 2
    /\ MissingRequired(FeedMessage(feed, last.index - 1))
    /\ IsComplete(FeedMessage(feed, last.index - 1))
    /\ last.outcome = "sent"
    /\ queue # <<>>
    /\ queue[Len(queue)].index = last.index

\* no download of wire message m has resolution 1080
NoCanonical(m) ==
    \A i \in 1..Len(m.downloads) : m.downloads[i].resolution # 1080

NoErrorLogged == \A i \in 1..Len(log) : log[i].level # "error"

\* C11: for a wire message without a download of resolution 1080, an empty
\* downloads list included, no event is enqueued and nothing is logged as an
\* error; reading it leaves the pump at the next read of the same connection.
C11_IncompleteDroppedSilently ==
    /\ []((IsSome(last.msg) /\ NoCanonical(Unwrap(last.msg))) =>
            /\ last.outcome = "incomplete"
            /\ \A e \in InFlight : e.index # last.index
            /\ ReceivedOfLast = {}
            /\ log = <<GotMessage, Skipping>>
            /\ NoErrorLogged)
    /\ [][(msgs' # msgs /\ NoCanonical(FeedMessage(feed, msgs'))) =>
            /\ pc' = "read"
            /\ queue' = queue
            /\ conn' = conn
            /\ UNCHANGED <<termination, afterStream, cooldowns>>]_vars

C11_Witness ==
    /\ conn = 1
    /\ ~afterStream
    /\ pc = "read"
    /\ last.index >= 2
    /\ FeedMessage(feed, last.index - 1).downloads = <<>>
    /\ last.outcome = "sent"
    /\ queue # <<>>
    /\ queue[Len(queue)].index = last.index

\* the processing of the message read last emitted an event that reports
\* what became of the message
OutcomeLogged == \E i \in 1..Len(log) : log[i] # GotMessage

\* C12: every failure of get_subscribers for a message, be it a store error,
\* an identifier that does not parse or an empty result, is logged, enqueues
\* no event for the message and leaves the pump at the next read of the same
\* connection.
C12_Original ==
    /\ [](last.outcome = "resolve_error" =>
            /\ OutcomeLogged
            /\ \A e \in InFlight : e.index # last.index
            /\ ReceivedOfLast = {})
    /\ [][(pc = "query" /\ IsErr(Resolved) /\ pc' # pc) =>
            /\ pc' = "read"
            /\ queue' = queue
            /\ conn' = conn
            /\ UNCHANGED <<termination, afterStream, cooldowns>>]_vars

\* a channel_id or guild_id of the rows does not parse as a non-zero u64
HasBadRow(rows) ==
    \E i \in 1..Len(rows) :
        \/ IsErr(ParseNonZeroU64(rows[i].channel_id))
        \/ IsErr(ParseNonZeroU64(rows[i].guild_id))

\* the result names a field that some row holds unparsable, and carries no
\* recipients
FailsOnIdentifier(rows, result) ==
    /\ IsErr(result)
    /\ result[2][1] = "ParseInt"
    /\ result[2][3] \in {"channel_id", "guild_id"}
    /\ \E i \in 1..Len(rows) : IsErr(ParseNonZeroU64(rows[i][result[2][3]]))

SampleRows ==
    { Row(Text42, Text1), Row(TextPlus7, Text42), Row(TextWord, Text1),
      Row(Text1, TextWord), Row(Text1, TextZero), Row(<<>>, <<>>) }
SampleAnswers ==
    { Answer(rows, failed) :
        rows \in UNION { [1..n -> SampleRows] : n \in 0..3 },
        failed \in BOOLEAN }

SampleAnswersAllOrNothing ==
    \A a \in SampleAnswers : HasBadRow(a.rows) =>
        FailsOnIdentifier(a.rows, get_subscribers(a.rows, a.failed))

\* C13: when a returned row has a channel_id or guild_id that does not
\* parse, get_subscribers fails with a ParseInt error naming such a field,
\* whatever the other rows are; the message is then settled as a resolution
\* failure and no event, with whatever recipients, is enqueued for it.
C13_ResolutionAllOrNothing ==
    /\ SampleAnswersAllOrNothing
    /\ (IsSome(last.msg) /\ Settled) =>
          LET m == Unwrap(last.msg)
              a == store[m.title]
          IN  (/\ IsComplete(m)
               /\ IsOk(DownloadCollectionTryFrom(m))
               /\ HasBadRow(a.rows)) =>
                  /\ last.outcome = "resolve_error"
                  /\ FailsOnIdentifier(a.rows, get_subscribers(a.rows, a.failed))
                  /\ \A e \in InFlight : e.index # last.index
                  /\ ReceivedOfLast = {}

C13_Witness ==
    /\ last.outcome = "resolve_error"
    /\ last.msg = Some(MsgEpisode)
    /\ Len(store["Show A"].rows) = 2
    /\ IsOk(SubscriberFromRecord(store["Show A"].rows[1]))
    /\ IsErr(SubscriberFromRecord(store["Show A"].rows[2]))
    /\ pc = "read"
    /\ last.index >= 2

\* the digits of a u64 other than 0
NonZero(id) == id # <<>> /\ Head(id) # 0

\* events the pipeline holds or has handed to the consumer last
Events == InFlight \cup { lastRecv[i] : i \in 1..Len(lastRecv) }

\* texts that parse to the number 0
ZeroTexts == { TextZero, <<"0", "0">>, <<"+", "0">> }

HasZeroRow(rows) ==
    \E i \in 1..Len(rows) :
        rows[i].channel_id \in ZeroTexts \/ rows[i].guild_id \in ZeroTexts

ZeroIsAnIdentifierError ==
    \A z \in ZeroTexts :
        /\ ParseNonZeroU64(z) = Err("Zero")
        /\ get_subscribers(<<Row(Text42, Text1), Row(z, Text1)>>, FALSE)
              = Err(<<"ParseInt", "Zero", "channel_id">>)
        /\ get_subscribers(<<Row(Text1, z), Row(Text42, Text1)>>, FALSE)
              = Err(<<"ParseInt", "Zero", "guild_id">>)

\* C14: every recipient of every event that is pending, queued or received
\* has a non-zero channel_id and guild_id; a row whose channel_id or guild_id
\* is the text "0" makes get_subscribers fail with a ParseInt error for that
\* field, and the message yields no event.
C14_IdentifiersNonZero ==
    /\ ZeroIsAnIdentifierError
    /\ \A e \in Events : \A i \in 1..Len(e.subscribers) :
          /\ NonZero(e.subscribers[i].channel_id)
          /\ NonZero(e.subscribers[i].guild_id)
    /\ (IsSome(last.msg) /\ Settled) =>
          LET m == Unwrap(last.msg)
              a == store[m.title]
          IN  (/\ IsComplete(m)
               /\ IsOk(DownloadCollectionTryFrom(m))
               /\ HasZeroRow(a.rows)) =>
                  /\ last.outcome = "resolve_error"
                  /\ \A e \in Events : e.index # last.index

C14_Witness ==
    /\ last.outcome = "resolve_error"
    /\ last.msg = Some(MsgBatch)
    /\ store["Show B"].rows = <<Row(Text1, TextZero)>>
    /\ pc = "read"
    /\ queue # <<>>
    /\ queue[1].subscribers = <<[kind |-> "Channel", channel_id |-> <<1>>,
                                 guild_id |-> <<1>>]>>

\* positions of the task inside the loop of handle_stream
Streaming == {"read", "query", "send_wait"}

\* C15: the loop of handle_stream is left only from the read of the stream,
\* when it yields the end of the stream or a status; no message is consumed
\* by that step, the reason (Closed or Status) is handed to subscribe, which
\* goes on to its cool-down, and a step that consumes a message stays in the
\* loop.
C15_PumpEndsOnlyOnStreamEnd ==
    /\ [][(pc \in Streaming /\ pc' \notin Streaming) =>
            /\ pc = "read"
            /\ pc' = "cooldown"
            /\ termination' \in {Some("Closed"), Some("Status")}
            /\ afterStream'
            /\ UNCHANGED <<msgs, last, log, channelVars, collection, outbound>>]_vars
    /\ [][msgs' # msgs => pc' \in Streaming]_vars

C15_Witness ==
    /\ pc = "cooldown"
    /\ termination = Some("Closed")
    /\ conn = 1
    /\ msgs >= 4
    /\ \E i \in 1..msgs : IsErr(DownloadCollectionTryFrom(FeedMessage(feed, i)))
    /\ \E i \in 1..msgs : ~IsComplete(FeedMessage(feed, i))
    /\ last.outcome = "resolve_error"

\* C16 as stated: the steps are convert, filter, resolve. A message whose
\* conversion fails is logged as a conversion failure and skipped, and only
\* a message that converted is skipped as incomplete.
C16_Original ==
    IsSome(last.msg) =>
        LET r == DownloadCollectionTryFrom(Unwrap(last.msg)) IN
        /\ IsErr(r) =>
              /\ last.outcome = "conversion_error"
              /\ log = <<GotMessage, FailedToConvert>>
        /\ last.outcome = "incomplete" => IsOk(r) /\ ~is_ready(r[2])

\* C16 as amended: the steps are filter, convert, resolve. A message without
\* a 1080 download is skipped as incomplete, whether it would convert or
\* not; a message with one whose conversion fails is logged as a conversion
\* failure and skipped; recipients are resolved only for a message that
\* passed the filter and converted, and for its title.
C16_FilterConvertResolve ==
    IsSome(last.msg) =>
        LET m == Unwrap(last.msg)
            r == DownloadCollectionTryFrom(m)
        IN  /\ ~IsComplete(m) =>
                  /\ last.outcome = "incomplete"
                  /\ log = <<GotMessage, Skipping>>
            /\ (IsComplete(m) /\ IsErr(r)) =>
                  /\ last.outcome = "conversion_error"
                  /\ log = <<GotMessage, FailedToConvert>>
            /\ (IsComplete(m) /\ IsOk(r)) =>
                  last.outcome \in {"resolving", "resolve_error", "waiting",
                                    "sent", "sent_after_wait"}
            /\ pc = "query" =>
                  /\ IsComplete(m)
                  /\ collection = Some(r[2])
            /\ last.outcome \in {"incomplete", "conversion_error"} =>
                  \A e \in Events : e.index # last.index

C16_Witness ==
    /\ last.msg = Some(MsgNothing)
    /\ IsErr(DownloadCollectionTryFrom(MsgNothing))
    /\ last.outcome = "incomplete"
    /\ log = <<GotMessage, Skipping>>
    /\ last.index >= 6
    /\ queue # <<>>

\* the wire message an event was built from
WireOf(e) == FeedMessage(feed, e.index)

\* C17 as stated: every Batch variant of an event has start <= end.
C17_Original ==
    \A e \in Events :
        e.content.variant.kind = "Batch" =>
            e.content.variant.start <= e.content.variant.end

\* C17 as amended: every Batch variant of an event carries the start and the
\* end of the wire message's batch unchanged, so that start <= end holds of
\* it exactly when it holds on the wire.
C17_BatchBoundsCopied ==
    \A e \in Events :
        LET v == Unwrap(WireOf(e).variant) IN
        /\ e.content.variant.kind = v.kind
        /\ v.kind = "Batch" =>
              /\ e.content.variant.start = v.start
              /\ e.content.variant.end = v.end
              /\ (e.content.variant.start <= e.content.variant.end)
                    <=> (v.start <= v.end)

C17_Witness ==
    /\ \E e \in QueueItems :
          /\ e.content.variant.kind = "Batch"
          /\ e.content.variant.start = 12
          /\ e.content.variant.end = 1
    /\ \E e \in QueueItems :
          /\ e.content.variant.kind = "Batch"
          /\ e.content.variant.start = 1
          /\ e.content.variant.end = 12

\* episode c is wire episode w with 0 and "" turned into absent values and
\* nothing else changed
Coerced(w, c) ==
    /\ c.number = w.number
    /\ (c.decimal = None) <=> (w.decimal = 0)
    /\ w.decimal # 0 => c.decimal = Some(w.decimal)
    /\ (c.version = None) <=> (w.version = 0)
    /\ w.version # 0 => c.version = Some(w.version)
    /\ (c.extra = None) <=> (w.extra = "")
    /\ w.extra # "" => c.extra = Some(w.extra)

SampleEpisodes ==
    { WireEpisode(n, d, v, x) :
        n \in {0, 5, 2147483647}, d \in {0, 1, 5}, v \in {0, 2},
        x \in {"", "END"} }

SampleEpisodesCoerced ==
    \A w \in SampleEpisodes : Coerced(w, EpisodeFrom(w))

\* C18: the episode of every event built from a wire episode has decimal
\* absent iff the wire decimal is 0, version absent iff the wire version is
\* 0, extra absent iff the wire extra is empty, holds the wire value in every
\* other case, and has the wire number, 0 included.
C18_EpisodeCoercions ==
    /\ SampleEpisodesCoerced
    /\ \A e \in Events :
          LET w == Unwrap(WireOf(e).variant) IN
          w.kind = "Episode" =>
              /\ e.content.variant.kind = "Episode"
              /\ Coerced(w, e.content.variant.episode)

C18_Witness ==
    /\ \E e \in QueueItems :
          /\ e.content.variant.kind = "Episode"
          /\ e.content.variant.episode =
                [number |-> 0, decimal |-> None, version |-> Some(3),
                 extra |-> None]
    /\ \E e \in QueueItems :
          /\ e.content.variant.kind = "Episode"
          /\ e.content.variant.episode =
                [number |-> 5, decimal |-> Some(5), version |-> Some(2),
                 extra |-> Some("END")]

\* downloads that convert and downloads that do not
DMax == WireDownload(GoodTs, 65535)
DBadDate == WireDownload(BadTs, 720)
SampleDownloads == { D720, D1080, DMax, DHuge, DNoDate, DBadDate }
SampleDownloadLists == UNION { [1..n -> SampleDownloads] : n \in 0..3 }

\* some download of the message does not convert
HasBadDownload(ds) == \E i \in 1..Len(ds) : IsErr(DownloadTryFrom(ds[i]))

\* the converted downloads are the wire downloads, one for one, with their
\* resolutions
SameDownloads(ds, cs) ==
    /\ Len(cs) = Len(ds)
    /\ \A i \in 1..Len(ds) :
          /\ cs[i].resolution = ds[i].resolution
          /\ cs[i].resolution <= 65535

\* the first download that does not convert fails for its resolution
FirstFailureIsRange(ds) ==
    \E i \in 1..Len(ds) :
        /\ ds[i].resolution > 65535
        /\ IsSome(ds[i].published_date)
        /\ IsOk(from_timestamp(Unwrap(ds[i].published_date)))
        /\ \A j \in 1..(i - 1) : IsOk(DownloadTryFrom(ds[j]))

SampleDownloadsAllOrNothing ==
    /\ \A d \in SampleDownloads :
          /\ d.resolution > 65535 => IsErr(DownloadTryFrom(d))
          /\ IsOk(DownloadTryFrom(d)) =>
                DownloadTryFrom(d)[2].resolution = d.resolution
    /\ \A ds \in SampleDownloadLists :
          LET r == CollectDownloads(ds)
              m == Wire("Show A", Some(WireMovie), GoodTs, GoodTs, ds)
          IN  /\ HasBadDownload(ds) <=> IsErr(r)
              /\ IsErr(r) <=> IsErr(DownloadCollectionTryFrom(m))
              /\ FirstFailureIsRange(ds) =>
                    /\ r = Err(<<"TryFromIntError", "resolution">>)
                    /\ DownloadCollectionTryFrom(m) = r
              /\ IsOk(r) =>
                    /\ SameDownloads(ds, r[2])
                    /\ DownloadCollectionTryFrom(m)[2].downloads = r[2]

C21_SupervisorKeepsQueue ==
    [][ /\ (pc' # pc /\ (pc \notin Streaming \/ pc' \notin Streaming))
            => queue' = queue
        /\ pc \notin Streaming
            => \/ queue' = queue
               \/ /\ queue # <<>>
                  /\ queue' = Tail(queue)
                  /\ lastRecv' = Some(Head(queue)) ]_vars

\* a second stream is open and nothing was read from it yet, while two events
\* of the first connection are still in the channel
C21_Witness ==
    /\ pc = "read"
    /\ conn = 2
    /\ last.conn = 1
    /\ Len(queue) >= 2

\* ---------------------------------------------------------------------- C22
\* C22: get_subscribers is called at most once for a message read from the
\* stream, with the title of that message, and only when the message holds a
\* 1080 download and converts; the call in flight is the one for the message
\* read last, and a message that was skipped or failed to convert has none.
C22_OneQueryPerMessage ==
    /\ Len(queries) <= 1
    /\ queries # <<>> =>
          /\ IsSome(last.msg)
          /\ IsComplete(Unwrap(last.msg))
          /\ IsOk(DownloadCollectionTryFrom(Unwrap(last.msg)))
          /\ queries = <<Unwrap(last.msg).title>>
    /\ pc = "query" =>
          /\ queries # <<>>
          /\ IsSome(collection)
          /\ queries = <<Unwrap(collection).title>>
    /\ last.outcome \in {"none", "incomplete", "conversion_error"} =>
          queries = <<>>

\* the third message of a stream is being resolved, after one that was
\* skipped without a query
C22_Witness ==
    /\ pc = "query"
    /\ queries = <<"Show A">>
    /\ last.index >= 3
    /\ \E i \in 1..(last.index - 1) : ~IsComplete(FeedMessage(feed, i))

\* ---------------------------------------------------------------------- C23
\* month-then-day order as one number: the day of a NonZeroU8 is below 256
MonthDayKey(d) == d.month * 256 + d.day

\* the (month, day) of the date lies between start and end, both included
MonthDayBetween(self, other) ==
    /\ MonthDayKey(self.start) <= MonthDayKey(DayOfMonthFrom(other))
    /\ MonthDayKey(DayOfMonthFrom(other)) <= MonthDayKey(self.end)

\* C23: contains answers TRUE exactly when the month and day of the date lie
\* between the start and the end of the range, both included, months compared
\* first and days second; the contains of util.rs and the one of
\* commands/gifs/sleep.rs give that same answer for every date and range.
C23_ContainsIsMonthDayBetween ==
    (IsSome(answer) /\ Unwrap(answer).op = "contains") =>
        /\ Unwrap(answer).util = MonthDayBetween(range, date)
        /\ Unwrap(answer).sleep = MonthDayBetween(range, date)

\* a date of a month strictly inside a range over several months, on a day
\* number above that of the end, is contained
C23_Witness ==
    /\ IsSome(answer)
    /\ Unwrap(answer).op = "contains"
    /\ range.start.month < date.month
    /\ date.month < range.end.month
    /\ date.day > range.end.day
    /\ Unwrap(answer).util
    /\ Unwrap(answer).sleep

\* ---------------------------------------------------------------------- C24
\* the day after a date
PlusOneDay(d) ==
    IF d.day < DaysIn(d.year, d.month) THEN NaiveDate(d.year, d.month, d.day + 1)
    ELSE IF d.month < 12 THEN NaiveDate(d.year, d.month + 1, 1)
         ELSE NaiveDate(d.year + 1, 1, 1)

\* the start day of the range in the year of the date
StartIn(self, d) == adjust_for_leap_year(self.start, leap_year(d.year))

\* the range starts on a day of the year of the date and does not end before
OrderedIn(self, d) ==
    /\ IsSome(to_naive_date(StartIn(self, d), d.year))
    /\ MonthDayKey(StartIn(self, d)) <= MonthDayKey(self.end)

\* the date is the day before the start day, or a day from the start day to
\* the end day
FromEveToEnd(self, d) ==
    \/ DayOfMonthFrom(PlusOneDay(d)) = StartIn(self, d)
    \/ MonthDayBetween(DateRange(StartIn(self, d), self.end), d)

\* C24: for a range whose start is a day of the year and not after its end,
\* should_cache answers TRUE exactly for the dates from the day before the
\* start day to the end day, both included, in util.rs and in
\* commands/gifs/sleep.rs.
C24_Original ==
    (IsSome(answer) /\ Unwrap(answer).op = "should_cache"
        /\ OrderedIn(range, date)) =>
        /\ Unwrap(answer).util = FromEveToEnd(range, date)
        /\ Unwrap(answer).sleep = FromEveToEnd(range, date)

\* ---------------------------------------------------------------------- C25
\* the pump of the specification: convert, then test the converted event for
\* a 1080 download, then resolve the recipients
ConvertFirstPushes(m) ==
    LET converted == DownloadCollectionTryFrom(m)
    IN  /\ IsOk(converted)
        /\ is_ready(converted[2])
        /\ IsOk(get_subscribers(store[converted[2].title].rows,
                                store[converted[2].title].failed))

\* the messages process_message has finished with
Processed == IF pc \in {"query", "send_wait"} THEN msgs - 1 ELSE msgs

\* C25: the events process_message has enqueued, testing the wire message
\* for a 1080 download before converting it, are those of the messages for
\* which a pump that converts first and tests the converted event enqueues
\* one, in the same order, each with the converted content of its message.
\* Step by step: process_message finishes with one message at a time, and
\* the sequence of pushes grows by that message exactly when the other pump
\* enqueues an event for it.
C25_FilterFirstRefinesConvertFirst ==
    [][ /\ Processed' = Processed => pushed' = pushed
        /\ Processed' # Processed =>
              /\ Processed' = Processed + 1
              /\ pushed' =
                    IF ConvertFirstPushes(FeedMessage(feed, Processed'))
                    THEN Append(pushed, Processed')
                    ELSE pushed
              /\ pushed' # pushed =>
                    /\ Len(queue') = Len(queue) + 1
                    /\ queue'[Len(queue')].index = Processed'
                    /\ Ok(queue'[Len(queue')].content) =
                          DownloadCollectionTryFrom(FeedMessage(feed, Processed'))
                    /\ Ok(queue'[Len(queue')].subscribers) =
                          get_subscribers(
                              store[FeedMessage(feed, Processed').title].rows,
                              store[FeedMessage(feed, Processed').title].failed)
      ]_vars

\* events were enqueued, and messages of each kind the two orders could treat
\* differently were read: one without a 1080 download that converts, one with
\* a 1080 download that does not
C25_Witness ==
    /\ Len(pushed) >= 2
    /\ \E i \in 1..Processed :
          /\ ~IsComplete(FeedMessage(feed, i))
          /\ IsOk(DownloadCollectionTryFrom(FeedMessage(feed, i)))
    /\ \E i \in 1..Processed :
          /\ IsComplete(FeedMessage(feed, i))
          /\ IsErr(DownloadCollectionTryFrom(FeedMessage(feed, i)))

\* ---------------------------------------------------------------------- C26
\* C26: once the Receiver is dropped, a send does not wait: it fails, the
\* failure is logged with error!, the event is dropped (nothing is enqueued,
\* nothing stays pending) and handle_stream reads the next message of the
\* same connection; neither handle_stream returns nor a reconnect starts.
C26_ClosedQueueDropsEvent ==
    [][ (closed /\ pc \in {"query", "send_wait"} /\ pc' # pc) =>
            /\ pc' = "read"
            /\ conn' = conn
            /\ UNCHANGED supervisorVars
            /\ queue' = <<>>
            /\ pushed' = pushed
            /\ outbound' = None
            /\ collection' = None
            /\ (pc = "send_wait" \/ IsOk(Resolved)) =>
                  /\ log' = Append(log, FailedToForward)
                  /\ last'.outcome = "send_failed"
      ]_vars

\* an event could not be sent on the closed channel and the stream is read on
C26_Witness ==
    /\ closed
    /\ pc = "query"
    /\ \E i \in 1..(msgs - 1) :
          /\ ConvertFirstPushes(FeedMessage(feed, i))
          /\ \A k \in 1..Len(pushed) : pushed[k] # i

\* ---------------------------------------------------------------------- C27
\* C27: embed_sender takes the events front first and spawns one task for
\* each, whatever the number of tasks still running, so deliveries overlap;
\* and a full channel gets a free slot again even if no delivery ever ends.
C27_DeliveriesDoNotHoldTheQueue ==
    /\ [][ lastRecv' # lastRecv =>
              /\ queue # <<>>
              /\ lastRecv' = Some(Head(queue))
              /\ queue' = Tail(queue)
              /\ delivering' = delivering + 1 ]_vars
    /\ (Len(queue) = QueueCapacity) ~> (Len(queue) < QueueCapacity)

\* two deliveries run at once, and the send that waited for a slot of the
\* full channel has completed
C27_Witness ==
    /\ delivering >= 2
    /\ last.outcome = "sent_after_wait"
    /\ queue # <<>>

\* ---------------------------------------------------------------------- C28
PushedPositions == { pushed[k] : k \in 1..Len(pushed) }

\* C28: whether an event is enqueued for a message does not depend on the
\* messages read before it: a message equal to an earlier one of the run is
\* enqueued exactly when that one was, so a qualifying message received k
\* times yields k events, each position of the wire at most once.
C28_NoDeduplication ==
    /\ Len(pushed) = Cardinality(PushedPositions)
    /\ \A i \in 1..Processed :
          FeedMessage(feed, i) = FeedMessage(feed, Processed) =>
              (i \in PushedPositions <=> Processed \in PushedPositions)

\* the same qualifying message was read four times on the first connection
\* and four events were enqueued
C28_Witness ==
    /\ conn = 1
    /\ pc = "read"
    /\ msgs = 4
    /\ \A i \in 1..4 : FeedMessage(feed, i) = MsgEpisode
    /\ pushed = <<1, 2, 3, 4>>

\* ---------------------------------------------------------------------- C29
\* the label of an Episode as it is meant: the number, then "." and
\* the decimal when there is one, then "v" and the version when there is one,
\* then the extra text
EpisodeLabel(episode) ==
    "[Ep " \o ToString(episode.number)
      \o (IF IsSome(episode.decimal)
          THEN "." \o ToString(Unwrap(episode.decimal)) ELSE "")
      \o (IF IsSome(episode.version)
          THEN "v" \o ToString(Unwrap(episode.version)) ELSE "")
      \o (IF IsSome(episode.extra) THEN Unwrap(episode.extra) ELSE "")
      \o "]"

\* C29: the title of the embed built for an Episode event shows ".<decimal>"
\* exactly when the episode has a decimal and "v<version>" exactly when it has
\* a version, each with the value of its own field, and the Display of otaku
\* writes the text the Display of domain writes.
C29_Original ==
    (IsSome(lastRecv) /\ Unwrap(lastRecv).content.variant.kind = "Episode") =>
        LET variant == Unwrap(lastRecv).content.variant
        IN  /\ embedTitle = Some(Unwrap(lastRecv).content.title \o " "
                              \o EpisodeLabel(variant.episode))
            /\ DownloadVariantDisplay(variant) =
                  DomainDownloadVariantDisplay(variant)

\* ---------------------------------------------------------------------- C30
RECURSIVE TotalOf(_, _)
TotalOf(b, users) ==
    IF users = {} THEN 0
    ELSE LET u == CHOOSE x \in users : TRUE
         IN  (IF b[u] = None THEN 0 ELSE Unwrap(b[u])) + TotalOf(b, users \ {u})

\* no transfer_user_balance call is running
NoCallRunning == \A c \in CallIds : calls[c].at \in {"idle", "done"}

\* C30: whatever the interleaving of the transfer_user_balance calls, no
\* balance is negative, and once the calls have returned the balances add up
\* to what they added up to before.
C30_Original ==
    /\ \A u \in Users : IsSome(balances[u]) => Unwrap(balances[u]) >= 0
    /\ NoCallRunning => TotalOf(balances, Users) = TotalOf(opening, Users)
====
